---- MODULE Spec2Model ----
(***************************************************************************)
(* One process of a judged submission, run under one of the two harnesses  *)
(* of jutge-driver-std:                                                    *)
(*   EntryRedirect    std/etc/PRO2/__judge_main.cc  (main calls main__2)   *)
(*   TerminationHook  std/etc/cc/stub.cc            (set_terminate hook)   *)
(* The submission is the environment: it calls, returns, throws, catches.  *)
(* The platform is the environment too: the disposition of SIGUSR1/SIGUSR2 *)
(* (raise() gives control back when the signal is ignored, blocked or      *)
(* handled) and the order of dynamic initialization across translation     *)
(* units are chosen in Init.                                               *)
(***************************************************************************)
EXTENDS Integers, Sequences, FiniteSets, TLC

\* deepest nesting of calls inside the submission's entry point
MaxDepth == 3
\* largest value the submission's entry point returns
MaxRet == 7

SIGUSR1 == "SIGUSR1"
SIGUSR2 == "SIGUSR2"
SIGABRT == "SIGABRT"

EntryRedirect == "EntryRedirect"
TerminationHook == "TerminationHook"
Harnesses == {EntryRedirect, TerminationHook}

\* what a submission throws: std::bad_alloc, another std::exception
\* (std::runtime_error), a value that is no exception object (throw 42)
Kinds == {"bad_alloc", "runtime_error", "int"}
RetVals == 0..MaxRet

\* the C++ class hierarchy the catch clauses match against
IsA(kind, type) ==
    \/ type = "..."
    \/ type = kind
    \/ type = "exception" /\ kind \in {"bad_alloc", "runtime_error"}

\* catch clauses of main, in textual order: <<type caught, signal raised>>
MainHandlers ==
    << <<"bad_alloc", SIGUSR1>>, <<"exception", SIGUSR2>>, <<"...", SIGUSR2>> >>

\* a slip in the clause order: the base class is caught first
HookHandlersBaseFirst ==
    << <<"exception", SIGUSR2>>, <<"bad_alloc", SIGUSR1>>, <<"...", SIGUSR2>> >>

\* catch clauses of jutge__stub__on_terminate, in textual order
HookHandlers ==
    << <<"bad_alloc", SIGUSR1>>, <<"exception", SIGUSR2>>, <<"...", SIGUSR2>> >>

\* the first clause that matches is the one that runs
RECURSIVE SelectHandler(_, _)
SelectHandler(handlers, kind) ==
    IF handlers = <<>> THEN "unhandled"
    ELSE IF IsA(kind, Head(handlers)[1]) THEN Head(handlers)[2]
    ELSE SelectHandler(Tail(handlers), kind)

\* orders in which the dynamic initializers can run before main: the stub's
\* jutge__stub__before_main and, when the submission has one, a
\* namespace-scope object of the submission (another translation unit)
InitOrders(h) ==
    IF h = EntryRedirect
    THEN { <<>>, <<"submission">> }
    ELSE { <<"stub">>, <<"stub", "submission">>, <<"submission", "stub">> }

VARIABLES
    harness,        \* which harness the binary was built with
    disp,           \* disposition of SIGUSR1 / SIGUSR2: "fatal" | "nonfatal"
    initQueue,      \* dynamic initializers still to run, in order
    pc,             \* position of the single thread
    depth,          \* call depth inside the submission's entry point
    pending,        \* PendingFailure: "none" or the kind being propagated
    thrownDepth,    \* depth at which the pending failure was thrown
    escaped,        \* kind of the first failure that escaped every handler
    escapedFrom,    \* "none" | "entry" | "static_init"
    returned,       \* the submission's entry point returned normally
    retval,         \* ... with this value
    termHandler,    \* the terminate hook slot: "default" | "jutge__stub__on_terminate"
    initCount,      \* times jutge__stub__before_main's initializer ran
    syncWithStdio,  \* ios_base::sync_with_stdio state
    cinTie,         \* cin.tie() target: "cout" | "null"
    raised,         \* signals raised so far, in order
    ended,          \* "running" | "exit" | "signal"
    exitCode,       \* status handed to the host when ended = "exit"
    killedBy,       \* signal that ended the process when ended = "signal"
    exitBy,         \* "none" | "main_return" | "_Exit"
    hookEnteredWith \* "notcalled", or what current_exception() was at hook entry

vars == <<harness, disp, initQueue, pc, depth, pending, thrownDepth, escaped,
          escapedFrom, returned, retval, termHandler, initCount, syncWithStdio,
          cinTie, raised, ended, exitCode, killedBy, exitBy, hookEnteredWith>>

env == <<harness, disp>>
io == <<syncWithStdio, cinTie>>
hookSlot == <<termHandler, initCount>>
outcome == <<raised, ended, exitCode, killedBy, exitBy>>
failure == <<pending, thrownDepth, escaped, escapedFrom>>
result == <<returned, retval>>

Init ==
    /\ harness \in Harnesses
    /\ disp \in [{SIGUSR1, SIGUSR2} -> {"fatal", "nonfatal"}]
    /\ initQueue \in InitOrders(harness)
    /\ pc = "static_init"
    /\ depth = 0
    /\ pending = "none"
    /\ thrownDepth = 0
    /\ escaped = "none"
    /\ escapedFrom = "none"
    /\ returned = FALSE
    /\ retval = 0
    /\ termHandler = "default"
    /\ initCount = 0
    /\ syncWithStdio = TRUE
    /\ cinTie = "cout"
    /\ raised = <<>>
    /\ ended = "running"
    /\ exitCode = 0
    /\ killedBy = "none"
    /\ exitBy = "none"
    /\ hookEnteredWith = "notcalled"

\* raise(sig): with the default disposition the process dies inside the call;
\* otherwise the call gives control back and execution goes on at `after`
Raise(sig, after) ==
    /\ raised' = Append(raised, sig)
    /\ IF disp[sig] = "fatal"
       THEN /\ ended' = "signal"
            /\ killedBy' = sig
            /\ pc' = "done"
       ELSE /\ pc' = after
            /\ UNCHANGED <<ended, killedBy>>
    /\ UNCHANGED <<exitCode, exitBy>>

\* the process ends with a status: return from main, or std::_Exit
Exit(code, by) ==
    /\ ended' = "exit"
    /\ exitCode' = code
    /\ exitBy' = by
    /\ pc' = "done"
    /\ UNCHANGED <<raised, killedBy>>

-----------------------------------------------------------------------------
\* before main: dynamic initialization

\* the lambda that initializes jutge__stub__before_main
BeforeMain ==
    /\ pc = "static_init"
    /\ initQueue # <<>>
    /\ Head(initQueue) = "stub"
    /\ initQueue' = Tail(initQueue)
    /\ termHandler' = "jutge__stub__on_terminate"
    /\ initCount' = initCount + 1
    /\ syncWithStdio' = FALSE
    /\ cinTie' = "null"
    /\ UNCHANGED <<env, pc, depth, failure, result, outcome, hookEnteredWith>>

\* a namespace-scope object of the submission starts its initializer
SubmissionInitBegin ==
    /\ pc = "static_init"
    /\ initQueue # <<>>
    /\ Head(initQueue) = "submission"
    /\ initQueue' = Tail(initQueue)
    /\ pc' = "sub_init"
    /\ UNCHANGED <<env, depth, failure, result, hookSlot, io, outcome,
                   hookEnteredWith>>

SubmissionInitDone ==
    /\ pc = "sub_init"
    /\ pc' = "static_init"
    /\ UNCHANGED <<env, initQueue, depth, failure, result, hookSlot, io,
                   outcome, hookEnteredWith>>

\* ... or throws (a global vector too large): no handler encloses it
SubmissionInitThrow ==
    /\ pc = "sub_init"
    /\ \E k \in Kinds :
          /\ pending' = k
          /\ escaped' = k
    /\ escapedFrom' = "static_init"
    /\ thrownDepth' = 0
    /\ pc' = "terminate"
    /\ UNCHANGED <<env, initQueue, depth, result, hookSlot, io, outcome,
                   hookEnteredWith>>

\* the runtime calls main once every initializer has run
StartMain ==
    /\ pc = "static_init"
    /\ initQueue = <<>>
    /\ pc' = IF harness = EntryRedirect THEN "main" ELSE "entry"
    /\ UNCHANGED <<env, initQueue, depth, failure, result, hookSlot, io,
                   outcome, hookEnteredWith>>

-----------------------------------------------------------------------------
\* EntryRedirect: main of __judge_main.cc

\* sync_with_stdio(false); cin.tie(0); then main__2 is called inside the try
MainPrologue ==
    /\ pc = "main"
    /\ syncWithStdio' = FALSE
    /\ cinTie' = "null"
    /\ pc' = "entry"
    /\ UNCHANGED <<env, initQueue, depth, failure, result, hookSlot, outcome,
                   hookEnteredWith>>

\* a slip: the value of main__2 is dropped
MainReturnDropsValue ==
    /\ pc = "entry_returned"
    /\ harness = EntryRedirect
    /\ Exit(0, "main_return")
    /\ UNCHANGED <<env, initQueue, depth, failure, result, hookSlot, io,
                   hookEnteredWith>>

\* return main__2();
MainReturn ==
    /\ pc = "entry_returned"
    /\ harness = EntryRedirect
    /\ Exit(retval, "main_return")
    /\ UNCHANGED <<env, initQueue, depth, failure, result, hookSlot, io,
                   hookEnteredWith>>

\* the three catch clauses of main
MainCatch ==
    /\ pc = "catch"
    /\ Raise(SelectHandler(MainHandlers, pending), "main_raised")
    /\ UNCHANGED <<env, initQueue, depth, failure, result, hookSlot, io,
                   hookEnteredWith>>

\* raise gave control back: control flows off the end of main, which returns 0
MainFallOff ==
    /\ pc = "main_raised"
    /\ Exit(0, "main_return")
    /\ UNCHANGED <<env, initQueue, depth, failure, result, hookSlot, io,
                   hookEnteredWith>>

-----------------------------------------------------------------------------
\* the submission's entry point (main__2, or main under TerminationHook)

Call ==
    /\ pc = "entry"
    /\ depth < MaxDepth
    /\ depth' = depth + 1
    /\ UNCHANGED <<env, initQueue, pc, failure, result, hookSlot, io, outcome,
                   hookEnteredWith>>

Return ==
    /\ pc = "entry"
    /\ depth > 0
    /\ depth' = depth - 1
    /\ UNCHANGED <<env, initQueue, pc, failure, result, hookSlot, io, outcome,
                   hookEnteredWith>>

Throw ==
    /\ pc = "entry"
    /\ \E k \in Kinds : pending' = k
    /\ thrownDepth' = depth
    /\ pc' = "unwinding"
    /\ UNCHANGED <<env, initQueue, depth, escaped, escapedFrom, result,
                   hookSlot, io, outcome, hookEnteredWith>>

\* the frame at this depth has no matching handler
Propagate ==
    /\ pc = "unwinding"
    /\ depth > 0
    /\ depth' = depth - 1
    /\ UNCHANGED <<env, initQueue, pc, failure, result, hookSlot, io, outcome,
                   hookEnteredWith>>

\* a handler of the submission catches the failure and the submission goes on
SubmissionCatch ==
    /\ pc = "unwinding"
    /\ pending' = "none"
    /\ pc' = "entry"
    /\ UNCHANGED <<env, initQueue, depth, thrownDepth, escaped, escapedFrom,
                   result, hookSlot, io, outcome, hookEnteredWith>>

\* the failure leaves main__2 and reaches the try block of main
EscapeToMain ==
    /\ pc = "unwinding"
    /\ depth = 0
    /\ harness = EntryRedirect
    /\ escaped' = pending
    /\ escapedFrom' = "entry"
    /\ pc' = "catch"
    /\ UNCHANGED <<env, initQueue, depth, pending, thrownDepth, result,
                   hookSlot, io, outcome, hookEnteredWith>>

\* the failure leaves main: no handler anywhere, std::terminate is called
EscapeToTerminate ==
    /\ pc = "unwinding"
    /\ depth = 0
    /\ harness = TerminationHook
    /\ escaped' = pending
    /\ escapedFrom' = "entry"
    /\ pc' = "terminate"
    /\ UNCHANGED <<env, initQueue, depth, pending, thrownDepth, result,
                   hookSlot, io, outcome, hookEnteredWith>>

\* the entry point returns v
EntryReturn ==
    /\ pc = "entry"
    /\ depth = 0
    /\ \E v \in RetVals : retval' = v
    /\ returned' = TRUE
    /\ pc' = "entry_returned"
    /\ UNCHANGED <<env, initQueue, depth, failure, hookSlot, io, outcome,
                   hookEnteredWith>>

\* under TerminationHook the submission's main is the real one: its value
\* is the exit status
RuntimeExit ==
    /\ pc = "entry_returned"
    /\ harness = TerminationHook
    /\ Exit(retval, "main_return")
    /\ UNCHANGED <<env, initQueue, depth, failure, result, hookSlot, io,
                   hookEnteredWith>>

\* std::terminate is reached with no failure in flight
CallTerminate ==
    /\ pc = "entry"
    /\ pending = "none"
    /\ pc' = "terminate"
    /\ UNCHANGED <<env, initQueue, depth, failure, result, hookSlot, io,
                   outcome, hookEnteredWith>>

-----------------------------------------------------------------------------
\* std::terminate and the hook of stub.cc

\* std::terminate calls the installed handler
TerminateCallsHook ==
    /\ pc = "terminate"
    /\ termHandler = "jutge__stub__on_terminate"
    /\ hookEnteredWith' = pending
    /\ pc' = "hook"
    /\ UNCHANGED <<env, initQueue, depth, failure, result, hookSlot, io,
                   outcome>>

\* the runtime default handler: abort()
TerminateDefaultAbort ==
    /\ pc = "terminate"
    /\ termHandler = "default"
    /\ raised' = Append(raised, SIGABRT)
    /\ ended' = "signal"
    /\ killedBy' = SIGABRT
    /\ pc' = "done"
    /\ UNCHANGED <<env, initQueue, depth, failure, result, hookSlot, io,
                   exitCode, exitBy, hookEnteredWith>>

\* if (auto exc = std::current_exception()) { try { rethrow } catch ... }
HookClassify ==
    /\ pc = "hook"
    /\ pending # "none"
    /\ Raise(SelectHandler(HookHandlers, pending), "hook_raised")
    /\ UNCHANGED <<env, initQueue, depth, failure, result, hookSlot, io,
                   hookEnteredWith>>

\* a slip: the hook returns to std::terminate's caller instead of exiting
HookExitReturns ==
    /\ \/ pc = "hook" /\ pending = "none"
       \/ pc = "hook_raised"
    /\ pc' = "entry"
    /\ UNCHANGED <<env, initQueue, depth, failure, result, hookSlot, io,
                   outcome, hookEnteredWith>>

\* a slip: the quiet exit reports a failure status
HookExitFailureStatus ==
    /\ \/ pc = "hook" /\ pending = "none"
       \/ pc = "hook_raised"
    /\ Exit(1, "_Exit")
    /\ UNCHANGED <<env, initQueue, depth, failure, result, hookSlot, io,
                   hookEnteredWith>>

\* std::_Exit(0): reached when there is no exception, and after the if block
\* when raise gave control back
HookExit ==
    /\ \/ pc = "hook" /\ pending = "none"
       \/ pc = "hook_raised"
    /\ Exit(0, "_Exit")
    /\ UNCHANGED <<env, initQueue, depth, failure, result, hookSlot, io,
                   hookEnteredWith>>

-----------------------------------------------------------------------------
Next ==
    \/ BeforeMain
    \/ SubmissionInitBegin
    \/ SubmissionInitDone
    \/ SubmissionInitThrow
    \/ StartMain
    \/ MainPrologue
    \/ MainReturn
    \/ MainCatch
    \/ MainFallOff
    \/ Call
    \/ Return
    \/ Throw
    \/ Propagate
    \/ SubmissionCatch
    \/ EscapeToMain
    \/ EscapeToTerminate
    \/ EntryReturn
    \/ RuntimeExit
    \/ CallTerminate
    \/ TerminateCallsHook
    \/ TerminateDefaultAbort
    \/ HookClassify
    \/ HookExit

Spec == Init /\ [][Next]_vars

\* one thread, always scheduled: the process keeps taking steps until it ends
FairSpec == Spec /\ WF_vars(Next)

-----------------------------------------------------------------------------
\* the harness has finished: the process has ended
Done == pc = "done"

\* C1: when the submission's entry point returns normally with value v, the
\* process ends with exit status v and neither SIGUSR1 nor SIGUSR2 is raised
ReturnValueIsExitStatus ==
    (Done /\ returned) =>
        /\ ended = "exit"
        /\ exitCode = retval
        /\ raised = <<>>

\* main__2 returned 1 and main passed it on
ReturnValueIsExitStatusWitness ==
    /\ Done
    /\ returned
    /\ retval = 1
    /\ exitCode = 1
    /\ harness = EntryRedirect

\* C2: when the first failure that escapes every handler of the submission's
\* entry point is std::bad_alloc, the process terminates via SIGUSR1, whatever the depth
\* at which it was thrown, and SIGUSR2 is not raised
BadAllocEndsBySigusr1 ==
    (Done /\ escapedFrom = "entry" /\ escaped = "bad_alloc") =>
        /\ ended = "signal"
        /\ killedBy = SIGUSR1
        /\ \A i \in 1..Len(raised) : raised[i] # SIGUSR2

\* C3: every uncaught failure that is not resource exhaustion, a
\* std::exception or a value that is no exception, makes the process
\* terminate via SIGUSR2; none is ignored and none raises SIGUSR1
OtherFailureEndsBySigusr2 ==
    (Done /\ escapedFrom = "entry" /\ escaped \in {"runtime_error", "int"}) =>
        /\ ended = "signal"
        /\ killedBy = SIGUSR2
        /\ \A i \in 1..Len(raised) : raised[i] # SIGUSR1

\* termination events observed so far: every raised signal, and the exit
NumEvents == Len(raised) + (IF ended = "exit" THEN 1 ELSE 0)

\* C4: in one execution at most one of {normal exit, signal A, signal B} is
\* observed and at most one signal is raised; after a raise there is no
\* second raise and no later exit with a status
AtMostOneTerminationEvent ==
    /\ Len(raised) <= 1
    /\ NumEvents <= 1

\* C5: under EntryRedirect, once main has raised SIGUSR1 or SIGUSR2 for an
\* escaping failure, main never returns to the loader, also when raise gives
\* control back
MainNeverReturnsAfterRaise ==
    (harness = EntryRedirect /\ raised # <<>>) =>
        /\ pc # "main_raised"
        /\ ~(ended = "exit" /\ exitBy = "main_return")

\* the hook is running
InHook == pc \in {"hook", "hook_raised"}

\* C6: every invocation of jutge__stub__on_terminate ends the process, by a
\* raised signal or by the quiet exit; the hook never returns to its caller
\* and the submission never resumes
HookNeverReturns ==
    /\ [][InHook => (pc' \in {"hook", "hook_raised", "done"})]_vars
    /\ [][pc = "hook_raised" => (pc' \in {"hook_raised", "done"})]_vars
    /\ (pc = "hook") ~> Done

\* the hook ran for a failure whose signal was not fatal, and still ended
\* the process
HookNeverReturnsWitness ==
    /\ Done
    /\ hookEnteredWith = "runtime_error"
    /\ raised = <<SIGUSR2>>
    /\ exitBy = "_Exit"

\* C7: when the hook is invoked while a failure is propagating, the failure
\* becomes a termination signal and never an exit status: the quiet exit
\* with status 0 is taken only when there is no propagating failure
HookFailureNeverExitStatus ==
    (hookEnteredWith \in Kinds) =>
        /\ ended # "exit"
        /\ exitBy # "_Exit"

\* C8: when the hook is invoked with no propagating failure
\* (std::current_exception() is null) it raises neither signal and ends the
\* process with exit status 0
HookQuietExit ==
    (hookEnteredWith = "none" /\ pc # "hook") =>
        /\ Done
        /\ ended = "exit"
        /\ exitCode = 0
        /\ raised = <<>>

\* std::terminate reached the hook with nothing in flight, and the process
\* has ended
HookQuietExitWitness ==
    /\ Done
    /\ hookEnteredWith = "none"
    /\ exitBy = "_Exit"
    /\ harness = TerminationHook

\* submission code is running and can throw
CanThrow == pc \in {"sub_init", "entry"}

\* C9: under TerminationHook the initialization runs exactly once and is
\* complete before the entry point begins, so that wherever submission logic
\* can throw the installed terminate hook is jutge__stub__on_terminate
HookInstalledBeforeSubmission ==
    (harness = TerminationHook) =>
        /\ initCount <= 1
        /\ (pc = "entry" => initCount = 1 /\ ~syncWithStdio /\ cinTie = "null")
        /\ (CanThrow => termHandler = "jutge__stub__on_terminate")

\* C10: both harnesses map a failure category to the same signal: for every
\* kind and every depth from which it escapes the entry point, the signal the
\* running harness raised is the one the other harness's clauses select
SameSignalInBothHarnesses ==
    (escapedFrom = "entry" /\ raised # <<>>) =>
        /\ Len(raised) = 1
        /\ raised[1] = SelectHandler(MainHandlers, escaped)
        /\ raised[1] = SelectHandler(HookHandlers, escaped)

\* std::bad_alloc thrown from the deepest nested call, classified by the hook
SameSignalInBothHarnessesWitness ==
    /\ escapedFrom = "entry"
    /\ escaped = "bad_alloc"
    /\ thrownDepth = MaxDepth
    /\ harness = TerminationHook
    /\ raised = <<SIGUSR1>>

====
